---------------------------- MODULE Spec2Model ----------------------------
(***************************************************************************)
(* Correction pipeline of AgentKosora-backend.                             *)
(*                                                                         *)
(* One correction request travels through correct_single_copy              *)
(* (app/api/routes/mobile.py), which fetches the exam context              *)
(* (app/core/rag.py), runs MCPServer.process_correction                    *)
(* (app/mcp/server.py) and saves the result.                               *)
(*                                                                         *)
(* Units.  Points are kept in tenths of a point (2.0 points = 20),         *)
(* confidences in hundredths (0.9 = 90) and percentages in hundredths of   *)
(* a percent (35.0 % = 3500), so that the float arithmetic of the code is  *)
(* exact integer arithmetic here.  Texts are kept by their length.         *)
(*                                                                         *)
(* The modules app.mcp.agents.answer_evaluator, consistency_agent and      *)
(* feedback_agent are imported by server.py but are not part of the        *)
(* sources; they are modelled from sections 4.2 - 4.4 of the specification.*)
(***************************************************************************)
EXTENDS Integers, Sequences, FiniteSets, TLC

VARIABLES
    dbQuestions,        \* max_points of the Question rows of the exam (database)
    ragIndexed,         \* whether the RAG store holds the exam's questions
    extracted_text,     \* the transcript, as the numbered-question matches in it
    route,              \* position of correct_single_copy
    exam_context,       \* what get_exam_context returned last
    providerRaised,     \* the RAG retrieval of the last get_exam_context call raised
    stage,              \* state of process_correction (section 4.5)
    questions,          \* parsing_result["parsed_questions"]
    parsing_result,     \* the payload of the question parser
    evaluation_payload, \* per task: what the answer evaluator returned, or raised
    task_results,       \* per task: the QuestionCorrection it resolved to
    out_of_order,       \* some task resolved before a task of a lower number
    evaluator_calls,    \* per task: calls of the answer evaluator made so far
    evaluation_results, \* what asyncio.gather handed back
    adjusted_corrections,
    agent_results,      \* the audit trail
    result,             \* the MCPCorrectionResult, once built
    persisted,          \* rows of CorrectionResult committed to the database
    response,           \* what the caller of the endpoint receives
    runs,               \* the process_correction calls on the one MCPServer
    trails,             \* the lists of audit records, by the frame that owns them
    agents_released,    \* shutdown() has gone through the agents
    enhanced_feedback,  \* what enhance_feedback returned to correct_single_copy, if called
    llm_call,           \* a call of the reasoning capability's wrapper: its arguments
    llm_return          \* and what it returned to its caller

vars == << dbQuestions, ragIndexed, extracted_text, route, exam_context,
           providerRaised, stage, questions, parsing_result, evaluation_payload,
           task_results, out_of_order, evaluator_calls,
           evaluation_results,
           adjusted_corrections, agent_results, result, persisted, response,
           runs, trails, agents_released,
           enhanced_feedback, llm_call, llm_return >>

-----------------------------------------------------------------------------
(* Bounds of the model *)

MaxQuestions == 2
MaxMatches == 1

(* Data the inputs are drawn from *)

\* max_points of an exam question, in tenths of a point
MaxPointsSet == {20, 50}
\* scores the reasoning capability may put in its JSON, in tenths of a point
RawPoints == {-10, 15, 70}
\* lengths of the student answer the evaluator extracts
AnswerLens == {120}
\* lengths of the text captured after a question marker
CapturedLens == {9, 11}
\* the exam of scenarios A and B of section 8: max points 2, 3 and 5
ScenarioExam == << 20, 30, 50 >>
\* numbers a question marker may carry
MarkerNumbers == {7}

\* Values that stand for "nothing yet"; every payload is a record with a status.
None == [ status |-> "none" ]
Pending == [ status |-> "pending" ]
\* An evaluator call that raised instead of returning a payload.
Raised == [ status |-> "raised" ]

-----------------------------------------------------------------------------
(* Helpers *)

RECURSIVE SumOf(_, _)
\* sum(f(c) for c in s), server.py lines 132-133
SumOf(s, field) ==
    IF s = << >> THEN 0
    ELSE (IF field = "points_awarded" THEN Head(s).points_awarded
          ELSE Head(s).max_points) + SumOf(Tail(s), field)

Min(a, b) == IF a < b THEN a ELSE b
Max(a, b) == IF a > b THEN a ELSE b

BoundedSeq(S, n) == UNION { [1..k -> S] : k \in 0..n }


-----------------------------------------------------------------------------
(* Context provider: app/core/rag.py *)

\* The questions get_exam_context builds from the exam structure, lines 342-352:
\* numbered i+1 in structure order, max_points as float.
ContextQuestions(mps) ==
    [ i \in 1..Len(mps) |->
        [ number |-> i, text_len |-> 20, type |-> "essay",
          max_points |-> mps[i], extracted |-> FALSE ] ]

\* Variant of get_exam_context without the except branch of lines 358-369: the
\* exception of the RAG system leaves the call.
get_exam_context_uncaught(retrieval, indexed, mps) ==
    IF retrieval = "raise"
    THEN Raised
    ELSE [ questions |-> IF indexed THEN ContextQuestions(mps) ELSE << >>,
           error |-> FALSE ]

\* get_exam_context, lines 314-369.  retrieval = "raise" when a call to the RAG
\* system raises; the except branch then returns the minimal context.  The key
\* "questions" is set only when the structure has questions (no key is the empty
\* sequence here: every reader uses .get("questions")).
get_exam_context(retrieval, indexed, mps) ==
    IF retrieval = "raise"
    THEN [ questions |-> << >>, error |-> TRUE ]
    ELSE [ questions |-> IF indexed THEN ContextQuestions(mps) ELSE << >>,
           error |-> FALSE ]

-----------------------------------------------------------------------------
(* Question parser: app/mcp/agents/question_parser.py *)

\* minimum length of a captured question text, line 93
MinTextLen == 10
\* question texts are cut to this length, lines 96 and 130
TextLimit == 500

RECURSIVE extract_questions_from_text(_)
\* _extract_questions_from_text, lines 73-102: every match whose captured text is
\* non-empty and longer than MinTextLen becomes a question carrying the number of
\* its marker, type "unknown" and max_points 1.
extract_questions_from_text(text) ==
    IF text = << >> THEN << >>
    ELSE LET m == Head(text)
             rest == extract_questions_from_text(Tail(text))
         IN IF m.len > 0 /\ m.len > MinTextLen
            THEN << [ number |-> m.num, text_len |-> Min(m.len, TextLimit),
                      type |-> "unknown", max_points |-> 10,
                      extracted |-> TRUE ] >> \o rest
            ELSE rest

\* _detect_question_type, lines 139-156: the first family of cue words found in
\* the text decides, in the order of the if chain; essay when none is found.
detect_question_type(cues) ==
    IF "explanatory" \in cues THEN "essay"
    ELSE IF "computational" \in cues THEN "calculation"
    ELSE IF "comparison" \in cues THEN "comparison"
    ELSE IF "boolean" \in cues THEN "true_false"
    ELSE IF "choice" \in cues THEN "multiple_choice"
    ELSE "essay"

\* _parse_question, lines 104-137.  A question that is a dict with a "text"
\* (lines 113-123) keeps its own number, type and max_points, question_number
\* and the other values being only the defaults of .get; float() of a
\* max_points that is not a number raises.  Anything else (lines 125-137) is
\* read as a string: it is numbered question_number, typed by its cue words and
\* given 1 point.
parse_question(question_data, question_number) ==
    IF "text_len" \in DOMAIN question_data
    THEN IF "max_points_not_a_number" \in DOMAIN question_data
         THEN Raised
         ELSE [ number |-> IF "number" \in DOMAIN question_data
                           THEN question_data.number ELSE question_number,
                text_len |-> question_data.text_len,
                type |-> IF "type" \in DOMAIN question_data
                         THEN question_data.type ELSE "essay",
                max_points |-> IF "max_points" \in DOMAIN question_data
                               THEN question_data.max_points ELSE 10 ]
    ELSE [ number |-> question_number,
           text_len |-> Min(question_data.str_len, TextLimit),
           type |-> detect_question_type(question_data.cues),
           max_points |-> 10 ]

\* the payload of the except branch of process, lines 64-71: no "confidence",
\* no "parsing_method"
parser_error_payload ==
    [ parsed_questions |-> << >>, error |-> TRUE, status |-> "error" ]

\* Variant of parser_process that never returns an empty list: with no question
\* found it returns one placeholder question (as _detect_question_count of
\* mobile.py, which answers 1 when it finds no marker).
parser_process_placeholder(context, text) ==
    LET source == IF context.questions # << >> THEN context.questions
                  ELSE extract_questions_from_text(text)
        parsed == IF source = << >>
                  THEN << [ number |-> 1, text_len |-> 0, type |-> "essay",
                            max_points |-> 10 ] >>
                  ELSE [ i \in 1..Len(source) |-> parse_question(source[i], i) ]
    IN [ parsed_questions |-> parsed,
         total_questions |-> Len(parsed),
         parsing_method |-> IF context.questions # << >> THEN "rag_context"
                            ELSE "text_extraction",
         confidence |-> IF parsed # << >> THEN 90 ELSE 50,
         status |-> "success" ]

\* Variant of parser_process without the fallback of lines 34-36: the questions
\* come from the exam context or not at all.
parser_process_context_only(context, text) ==
    IF context = None THEN parser_error_payload
    ELSE
    LET from_context == IF "questions" \in DOMAIN context
                        THEN context.questions ELSE << >>
        parsed == [ i \in 1..Len(from_context) |->
                      parse_question(from_context[i], i) ]
    IN IF \E i \in 1..Len(parsed) : parsed[i] = Raised
       THEN parser_error_payload
       ELSE [ parsed_questions |-> parsed,
              total_questions |-> Len(parsed),
              parsing_method |-> IF from_context # << >> THEN "rag_context"
                                 ELSE "text_extraction",
              confidence |-> IF parsed # << >> THEN 90 ELSE 50,
              status |-> "success" ]

\* Variant of parser_process without the try/except of lines 30 and 64-71: the
\* exception of .get or of float() leaves process.
parser_process_uncaught(context, text) ==
    IF context = None THEN Raised
    ELSE
    LET from_context == IF "questions" \in DOMAIN context
                        THEN context.questions ELSE << >>
        source == IF from_context # << >> THEN from_context
                  ELSE extract_questions_from_text(text)
        parsed == [ i \in 1..Len(source) |-> parse_question(source[i], i) ]
    IN IF \E i \in 1..Len(parsed) : parsed[i] = Raised
       THEN Raised
       ELSE [ parsed_questions |-> parsed,
              total_questions |-> Len(parsed),
              parsing_method |-> IF from_context # << >> THEN "rag_context"
                                 ELSE "text_extraction",
              confidence |-> IF parsed # << >> THEN 90 ELSE 50,
              status |-> "success" ]

\* QuestionParserAgent.process, lines 18-71.  An exam context that is no dict
\* (None) makes .get raise, a question whose max_points is not a number makes
\* float() raise: both inside the try, whose except branch returns the error
\* payload.  A context without the key "questions" reads as the empty list.
parser_process(context, text) ==
    IF context = None THEN parser_error_payload
    ELSE
    LET from_context == IF "questions" \in DOMAIN context
                        THEN context.questions ELSE << >>
        source == IF from_context # << >> THEN from_context
                  ELSE extract_questions_from_text(text)
        parsed == [ i \in 1..Len(source) |-> parse_question(source[i], i) ]
    IN IF \E i \in 1..Len(parsed) : parsed[i] = Raised
       THEN parser_error_payload
       ELSE [ parsed_questions |-> parsed,
              total_questions |-> Len(parsed),
              parsing_method |-> IF from_context # << >> THEN "rag_context"
                                 ELSE "text_extraction",
              confidence |-> IF parsed # << >> THEN 90 ELSE 50,
              status |-> "success" ]

-----------------------------------------------------------------------------
(* Reasoning capability: app/core/llm.py *)

\* _generate_basic_correction, lines 282-303: the score follows the length of
\* the answer it is given; confidence 0.3.
generate_basic_correction(answer_len, max_points) ==
    [ points_awarded |-> IF answer_len > 100 THEN (max_points * 8) \div 10
                         ELSE IF answer_len > 50 THEN (max_points * 5) \div 10
                         ELSE (max_points * 2) \div 10,
      feedback |-> "basic",
      confidence |-> 30 ]

ParseClamp(points, max_points) == Max(0, Min(points, max_points))

\* _parse_gemini_response, lines 252-280: a JSON object in the response gives the
\* clamped points; no JSON object, or one that does not parse, falls back to the
\* basic correction of the empty answer.
parse_gemini_response(cap, max_points) ==
    IF cap.kind = "json"
    THEN [ points_awarded |-> ParseClamp(cap.points, max_points),
           feedback |-> "llm",
           confidence |-> cap.confidence ]
    ELSE generate_basic_correction(0, max_points)

\* GeminiProcessor.correct_answer, lines 31-68.
correct_answer(answer_len, max_points, cap) ==
    IF cap.kind = "disabled" THEN generate_basic_correction(answer_len, max_points)
    ELSE IF cap.kind = "error" THEN generate_basic_correction(answer_len, max_points)
    ELSE parse_gemini_response(cap, max_points)

\* What the reasoning capability may do on one call of correct_answer: it is
\* disabled (line 52), the call raises or gives no text (lines 243-250), the
\* text holds no JSON object, one that json.loads refuses, one whose
\* points_awarded float() refuses, or a JSON object with a number of points.
Capabilities ==
    [ kind : {"json"}, points : RawPoints, confidence : {85} ]
    \cup [ kind : {"disabled", "error", "nojson", "badjson", "nonnumeric"},
           points : {0}, confidence : {0} ]

\* _generate_basic_feedback, lines 305-316: the sentence of the band of
\* total_score / max_score * 100, taken as 0 when max_score is 0 (both scores
\* in tenths of a point; the sentence without the score it ends with).
generate_basic_feedback(total_score, max_score) ==
    LET at_least(p) == max_score > 0 /\ total_score * 100 >= p * max_score
    IN IF at_least(85) THEN "Excellent travail !"
       ELSE IF at_least(70) THEN "Bon travail."
       ELSE IF at_least(50) THEN "Resultat acceptable."
       ELSE "Des revisions sont necessaires."

\* the sentences of _generate_basic_feedback
TemplatedFeedback ==
    { "Excellent travail !", "Bon travail.", "Resultat acceptable.",
      "Des revisions sont necessaires." }

\* What the reasoning capability may do on one call of enhance_feedback: it is
\* disabled, the call raises or gives no text, or it gives a text, whose length
\* once stripped (line 116) is text_len.
FeedbackCapabilities ==
    [ kind : {"disabled", "error"}, text_len : {0} ]
    \cup [ kind : {"text"}, text_len : {0, 40} ]

\* Variant of enhance_feedback whose except branch (lines 118-120) gives up and
\* returns an empty string.
enhance_feedback_silent(n_corrections, as_json, total_score, max_score, cap) ==
    IF cap.kind = "disabled" \/ n_corrections = 0
    THEN generate_basic_feedback(total_score, max_score)
    ELSE IF max_score = 0 \/ ~ as_json \/ cap.kind = "error"
    THEN ""
    ELSE IF cap.text_len > 0 THEN "narrative" ELSE ""

\* GeminiProcessor.enhance_feedback, lines 70-120.  Without capability or
\* without corrections the templated sentence is returned (lines 91-92).  Inside
\* the try, building the prompt divides by max_score (line 99) and dumps the
\* corrections as JSON (line 102, as_json: json.dumps accepts them), and the
\* capability is awaited (line 115): whatever raises there gives the templated
\* sentence (lines 118-120).  Otherwise the stripped text of the response is
\* returned as it is (line 116), the empty string for a blank text.
enhance_feedback(n_corrections, as_json, total_score, max_score, cap) ==
    IF cap.kind = "disabled" \/ n_corrections = 0
    THEN generate_basic_feedback(total_score, max_score)
    ELSE IF max_score = 0 \/ ~ as_json \/ cap.kind = "error"
    THEN generate_basic_feedback(total_score, max_score)
    ELSE IF cap.text_len > 0 THEN "narrative" ELSE ""

-----------------------------------------------------------------------------
(* Answer evaluator agent (section 4.2) and MCPServer._evaluate_question *)

\* AnswerEvaluatorAgent.process: extracts the student answer, asks the reasoning
\* capability and re-clamps its score to [0, max_points] of the question.
answer_evaluator_process(question, answer_len, cap) ==
    LET c == correct_answer(answer_len, question.max_points, cap)
    IN [ status |-> "success",
         extracted_answer |-> answer_len,
         points_awarded |-> Max(0, Min(c.points_awarded, question.max_points)),
         feedback |-> c.feedback,
         confidence |-> c.confidence ]

\* Variant of evaluate_question that misses the max_points of the question and
\* falls on the default of .get("max_points", 1), lines 192 and 211.
evaluate_question_default_max(question, question_number, outcome) ==
    IF outcome.status = "raised"
    THEN [ question_number |-> question_number,
           student_answer |-> 0,
           points_awarded |-> 0,
           max_points |-> 10,
           feedback |-> "error",
           confidence_score |-> 0 ]
    ELSE [ question_number |-> question_number,
           student_answer |-> outcome.extracted_answer,
           points_awarded |-> outcome.points_awarded,
           max_points |-> 10,
           feedback |-> outcome.feedback,
           confidence_score |-> outcome.confidence ]

\* Variant of evaluate_question without the try/except of lines 175 and 200-215:
\* the exception of the evaluator leaves the task.
evaluate_question_uncaught(question, question_number, outcome) ==
    IF outcome.status = "raised"
    THEN Raised
    ELSE [ question_number |-> question_number,
           student_answer |-> outcome.extracted_answer,
           points_awarded |-> outcome.points_awarded,
           max_points |-> question.max_points,
           feedback |-> outcome.feedback,
           confidence_score |-> outcome.confidence ]

\* _evaluate_question, server.py lines 164-215: the correction built from the
\* evaluator's payload, or the default correction when the evaluator raised.
evaluate_question(question, question_number, outcome) ==
    IF outcome.status = "raised"
    THEN [ question_number |-> question_number,
           student_answer |-> 0,
           points_awarded |-> 0,
           max_points |-> question.max_points,
           feedback |-> "error",
           confidence_score |-> 0 ]
    ELSE [ question_number |-> question_number,
           student_answer |-> outcome.extracted_answer,
           points_awarded |-> outcome.points_awarded,
           max_points |-> question.max_points,
           feedback |-> outcome.feedback,
           confidence_score |-> outcome.confidence ]


\* Variant of gather_store that collects the results as the tasks complete
\* (asyncio.as_completed): the correction goes to the first free position.
gather_as_completed(slots, i, correction) ==
    LET free == { j \in 1..Len(slots) : slots[j] = None }
        first == CHOOSE j \in free : \A k \in free : j <= k
    IN [ slots EXCEPT ![first] = correction ]

\* asyncio.gather(*evaluation_tasks), server.py line 90: the result of the task
\* given at position i is returned at position i, whenever the task completes.
gather_store(slots, i, correction) == [ slots EXCEPT ![i] = correction ]

-----------------------------------------------------------------------------
(* Consistency agent (section 4.3) and feedback agent (section 4.4) *)

\* What the consistency agent may decide on one call: nothing to adjust, an
\* internal failure, or softening the score of question k.
ConsistencyPolicies(n) ==
    [ kind : {"pass", "fail"}, k : {0} ] \cup [ kind : {"soften"}, k : 1..n ]

\* Variant of consistency_process whose failure leaves the payload without
\* corrections (line 109 of server.py then reads the empty list).
consistency_process_dropping(corrections, policy) ==
    [ status |-> IF policy.kind = "fail" THEN "error" ELSE "success",
      adjusted_corrections |->
          IF policy.kind = "soften"
          THEN [ corrections EXCEPT
                   ![policy.k].points_awarded = @ \div 2,
                   ![policy.k].confidence_score = Min(@, 50) ]
          ELSE IF policy.kind = "fail" THEN << >>
          ELSE corrections,
      confidence |-> IF policy.kind = "fail" THEN 0 ELSE 90 ]

\* Variant of consistency_process that also rewrites the feedback of the
\* correction it softens.
consistency_process_rewriting(corrections, policy) ==
    [ status |-> IF policy.kind = "fail" THEN "error" ELSE "success",
      adjusted_corrections |->
          IF policy.kind = "soften"
          THEN [ corrections EXCEPT
                   ![policy.k].points_awarded = @ \div 2,
                   ![policy.k].confidence_score = Min(@, 50),
                   ![policy.k].feedback = "adjusted" ]
          ELSE corrections,
      confidence |-> IF policy.kind = "fail" THEN 0 ELSE 90 ]

\* ConsistencyAgent.process: a total function of its input that keeps every
\* question in place and touches only points_awarded and confidence_score; on an
\* internal failure the corrections come back unchanged.
consistency_process(corrections, policy) ==
    [ status |-> IF policy.kind = "fail" THEN "error" ELSE "success",
      adjusted_corrections |->
          IF policy.kind = "soften"
          THEN [ corrections EXCEPT
                   ![policy.k].points_awarded = @ \div 2,
                   ![policy.k].confidence_score = Min(@, 50) ]
          ELSE corrections,
      confidence |-> IF policy.kind = "fail" THEN 0 ELSE 90 ]

\* FeedbackAgent.process: a narrative from the reasoning capability, or the
\* templated sentence when the capability is unavailable; never empty.
feedback_process(corrections, mode) ==
    [ status |-> "success",
      overall_feedback |-> mode,
      confidence |-> IF mode = "templated" THEN 50 ELSE 85 ]

FeedbackModes == {"narrative", "templated"}

-----------------------------------------------------------------------------
(* Aggregation, server.py lines 131-150, and the endpoint's grade *)

\* Variant of percentage_of without the guard of line 134; the division fault at
\* max_score = 0 is shown as the value -1.
percentage_unguarded(total_score, max_score) ==
    IF max_score # 0 THEN (total_score * 10000) \div max_score ELSE -1

\* line 134, in hundredths of a percent
percentage_of(total_score, max_score) ==
    IF max_score > 0 THEN (total_score * 10000) \div max_score ELSE 0

\* Variant of aggregate that sums the points of evaluation_results, the list
\* before the consistency agent adjusted it.
aggregate_unadjusted(corrections, feedback_result, audit) ==
    LET total_score == SumOf(evaluation_results, "points_awarded")
        max_score == SumOf(corrections, "max_points")
    IN [ status |-> "result",
         corrections |-> corrections,
         total_score |-> total_score,
         max_score |-> max_score,
         percentage |-> percentage_of(total_score, max_score),
         feedback |-> feedback_result.overall_feedback,
         agent_results |-> audit ]

\* MCPCorrectionResult(...), lines 132-150
aggregate(corrections, feedback_result, audit) ==
    LET total_score == SumOf(corrections, "points_awarded")
        max_score == SumOf(corrections, "max_points")
    IN [ status |-> "result",
         corrections |-> corrections,
         total_score |-> total_score,
         max_score |-> max_score,
         percentage |-> percentage_of(total_score, max_score),
         feedback |-> feedback_result.overall_feedback,
         agent_results |-> audit ]

\* the defaults of payload.get("confidence", ...), lines 69, 104 and 127
default_confidence(name) ==
    IF name = "question_parser" THEN 80
    ELSE IF name = "consistency_checker" THEN 90
    ELSE 85

\* MCPAgentResult(...), lines 65-71, 100-106, 123-129
agent_result(name, payload) ==
    [ agent_name |-> name, question_number |-> -1,
      status |-> payload.status,
      confidence |-> IF "confidence" \in DOMAIN payload THEN payload.confidence
                     ELSE default_confidence(name) ]

\* Variant of calculate_grade whose thresholds are exclusive.
calculate_grade_exclusive(percentage) ==
    IF percentage > 85 * 100 THEN "A"
    ELSE IF percentage > 70 * 100 THEN "B"
    ELSE IF percentage > 55 * 100 THEN "C"
    ELSE IF percentage > 40 * 100 THEN "D"
    ELSE "F"

\* _calculate_grade, mobile.py lines 454-465 (percentage in hundredths of a percent)
calculate_grade(percentage) ==
    IF percentage >= 85 * 100 THEN "A"
    ELSE IF percentage >= 70 * 100 THEN "B"
    ELSE IF percentage >= 55 * 100 THEN "C"
    ELSE IF percentage >= 40 * 100 THEN "D"
    ELSE "F"


\* MobileCorrectionResponse(...), mobile.py lines 180-206: the model validates
\* 0 <= percentage <= 100 (schemas/mobile.py line 94), and _extract_strengths
\* divides by max_points of every correction (mobile.py line 471).
build_response(res, feedback) ==
    IF \/ res.percentage < 0
       \/ res.percentage > 100 * 100
       \/ \E i \in 1..Len(res.corrections) : res.corrections[i].max_points = 0
    THEN [ status |-> "error" ]
    ELSE [ status |-> "ok",
           total_score |-> res.total_score,
           max_score |-> res.max_score,
           percentage |-> res.percentage,
           grade |-> calculate_grade(res.percentage),
           corrections |-> res.corrections,
           overall_feedback |-> feedback ]

\* CorrectionResult(...), mobile.py lines 160-174
correction_row(res, feedback) ==
    [ total_score |-> res.total_score,
      max_score |-> res.max_score,
      percentage |-> res.percentage,
      corrections |-> res.corrections,
      feedback |-> feedback,
      status |-> "completed" ]

-----------------------------------------------------------------------------
(* The one MCPServer of the process (mobile.py line 35) and its calls *)

\* the requests that call process_correction on the instance at the same time
Requests == {1, 2}

\* the exam context each of them brings: one question, of 2.0 and of 5.0 points
RequestContexts ==
    << get_exam_context("ok", TRUE, << 20 >>),
       get_exam_context("ok", TRUE, << 50 >>) >>

\* Variant of local_frame: the list of audit records is held by the instance,
\* so every call works on the same list.
shared_frame(r) == 1

\* server.py lines 53-54: agent_results and all_corrections are lists created
\* by the call, local to its frame; __init__ (lines 27-35) gives the instance
\* nothing but the dictionary of agents.
local_frame(r) == r

IdleRun ==
    [ stage |-> "Idle", questions |-> << >>, evaluation_payload |-> << >>,
      task_results |-> << >>, evaluation_results |-> << >>,
      adjusted_corrections |-> << >>, policy |-> None, mode |-> "none",
      result |-> None,
      concurrent |-> FALSE ]   \* the call started while another was under way

\* no call of correct_answer or enhance_feedback is looked at on its own
NoCapabilityCall ==
    /\ llm_call = None
    /\ llm_return = None

InitServerVars ==
    /\ runs = [ r \in Requests |-> IdleRun ]
    /\ trails = [ f \in Requests |-> << >> ]
    /\ agents_released = FALSE

-----------------------------------------------------------------------------
(* The request: correct_single_copy, mobile.py lines 98-214 *)

Matches == [ num : MarkerNumbers, len : CapturedLens ]

Init ==
    /\ dbQuestions \in BoundedSeq(MaxPointsSet, MaxQuestions) \cup { ScenarioExam }
    /\ ragIndexed \in BOOLEAN
    /\ extracted_text \in BoundedSeq(Matches, MaxMatches)
    /\ route = "lookup"
    /\ exam_context = None
    /\ providerRaised = FALSE
    /\ stage = "Idle"
    /\ questions = << >>
    /\ parsing_result = None
    /\ evaluation_payload = << >>
    /\ task_results = << >>
    /\ out_of_order = FALSE
    /\ evaluator_calls = << >>
    /\ evaluation_results = << >>
    /\ adjusted_corrections = << >>
    /\ agent_results = << >>
    /\ result = None
    /\ persisted = << >>
    /\ response = None
    /\ enhanced_feedback = None
    /\ NoCapabilityCall
    /\ InitServerVars

pipelineVars == << stage, questions, parsing_result, evaluation_payload,
                   task_results, out_of_order, evaluator_calls,
                   evaluation_results,
                   adjusted_corrections, agent_results, result >>
\* what a request never writes: its inputs, and the calls of other requests
inputVars == << dbQuestions, extracted_text, runs, trails, agents_released,
               llm_call, llm_return >>

\* lines 112-115: the exam is looked up; the HTTPException raised for a missing
\* exam is caught by the handler's own except clause (lines 212-214).
LookupExam ==
    /\ route = "lookup"
    /\ \E found \in BOOLEAN :
          IF found
          THEN route' = "context" /\ response' = response
          ELSE route' = "error" /\ response' = [ status |-> "error" ]
    /\ UNCHANGED << inputVars, ragIndexed, exam_context, providerRaised,
                    pipelineVars, persisted, enhanced_feedback >>

\* line 118: the first call of get_exam_context; lines 120-123 decide whether the
\* questions of the database are to be added to the RAG store.
FetchContext ==
    /\ route = "context"
    /\ \E retrieval \in {"ok", "raise"} :
          LET context == get_exam_context(retrieval, ragIndexed, dbQuestions)
          IN /\ providerRaised' = (retrieval = "raise")
             /\ IF context = Raised
                THEN \* lines 212-214: an exception of the call ends the request
                     /\ exam_context' = exam_context
                     /\ route' = "error"
                     /\ response' = [ status |-> "error" ]
                ELSE /\ exam_context' = context
                     /\ route' = IF context.questions = << >> /\ dbQuestions # << >>
                                 THEN "seed" ELSE "correct"
                     /\ response' = response
    /\ UNCHANGED << inputVars, ragIndexed, pipelineVars, persisted, enhanced_feedback >>

\* lines 124-139: add_exam_to_rag (which swallows its own failures, rag.py lines
\* 426-431) and the second call of get_exam_context.
SeedRag ==
    /\ route = "seed"
    /\ \E added \in BOOLEAN, retrieval \in {"ok", "raise"} :
          LET indexed == ragIndexed \/ added
              context == get_exam_context(retrieval, indexed, dbQuestions)
          IN /\ ragIndexed' = indexed
             /\ providerRaised' = (retrieval = "raise")
             /\ IF context = Raised
                THEN /\ exam_context' = exam_context
                     /\ route' = "error"
                     /\ response' = [ status |-> "error" ]
                ELSE /\ exam_context' = context
                     /\ route' = "correct"
                     /\ response' = response
    /\ UNCHANGED << inputVars, pipelineVars, persisted, enhanced_feedback >>

-----------------------------------------------------------------------------
(* MCPServer.process_correction, server.py lines 37-162 *)

\* lines 142-149 of mobile.py and 49-59 of server.py: the call is made and the
\* parser is awaited.
StartCorrection ==
    /\ route = "correct"
    /\ stage = "Idle"
    /\ stage' = "Parsing"
    /\ UNCHANGED << inputVars, ragIndexed, route, exam_context, providerRaised,
                    questions, parsing_result, evaluation_payload, task_results,
                    out_of_order, evaluator_calls,
                    evaluation_results, adjusted_corrections,
                    agent_results, result, persisted, enhanced_feedback, response >>

\* lines 59-88: the parser returns, its record is appended to the audit trail and
\* one evaluation task per parsed question is created.  An exception of the
\* parser would leave process_correction (lines 159-162) and the endpoint
\* (mobile.py lines 212-214).
ParseQuestions ==
    /\ stage = "Parsing"
    /\ LET payload == parser_process(exam_context, extracted_text)
       IN IF payload = Raised
          THEN /\ stage' = "Failed"
               /\ route' = "error"
               /\ response' = [ status |-> "error" ]
               /\ UNCHANGED << parsing_result, questions, agent_results,
                               evaluation_payload, task_results,
                               evaluator_calls >>
          ELSE LET parsed == payload.parsed_questions
               IN /\ parsing_result' = payload
                  /\ questions' = parsed
                  /\ agent_results' =
                        Append(agent_results,
                               agent_result("question_parser", payload))
                  /\ evaluation_payload' = [ i \in 1..Len(parsed) |-> Pending ]
                  /\ task_results' = [ i \in 1..Len(parsed) |-> None ]
                  /\ evaluator_calls' = [ i \in 1..Len(parsed) |-> 0 ]
                  /\ stage' = "Evaluating"
                  /\ UNCHANGED << route, response >>
    /\ UNCHANGED << inputVars, ragIndexed, exam_context, providerRaised,
                    out_of_order, evaluation_results, adjusted_corrections,
                    result, persisted, enhanced_feedback >>

\* Variant of calls_made: a call that raised is made a second time before the
\* task gives up.
calls_made_retrying(outcome) == IF outcome.status = "raised" THEN 2 ELSE 1

\* lines 175-183: the calls of the answer evaluator a task makes, whatever the
\* call comes to: the one await of line 177, in no loop; the except clause of
\* lines 200-215 builds the degraded correction without calling again.
calls_made(outcome) == 1

\* What one call of the answer evaluator may come to, for one question.
EvaluatorOutcomes(question) ==
    { Raised } \cup
    { answer_evaluator_process(question, len, cap) :
        len \in AnswerLens, cap \in Capabilities }

\* lines 164-215: task i resolves, in any order among the tasks.
EvaluatorReturns(i) ==
    /\ stage = "Evaluating"
    /\ i \in 1..Len(questions)
    /\ evaluation_payload[i] = Pending
    /\ \E outcome \in EvaluatorOutcomes(questions[i]) :
          LET correction == evaluate_question(questions[i], i, outcome)
          IN /\ evaluation_payload' = [ evaluation_payload EXCEPT ![i] = outcome ]
             /\ evaluator_calls' =
                   [ evaluator_calls EXCEPT ![i] = @ + calls_made(outcome) ]
             /\ IF correction = Raised
                THEN \* an exception that leaves the task leaves gather (line 90),
                     \* process_correction (lines 159-162) and the endpoint
                     \* (mobile.py lines 212-214)
                     /\ task_results' = task_results
                     /\ stage' = "Failed"
                     /\ route' = "error"
                     /\ response' = [ status |-> "error" ]
                ELSE /\ task_results' = gather_store(task_results, i, correction)
                     /\ UNCHANGED << stage, route, response >>
    /\ out_of_order' =
          (out_of_order \/ \E j \in 1..(i - 1) : evaluation_payload[j] = Pending)
    /\ UNCHANGED << inputVars, ragIndexed, exam_context, providerRaised,
                    questions, parsing_result, evaluation_results,
                    adjusted_corrections, agent_results, result, persisted, enhanced_feedback >>

\* Variant of AllResolved: the join returns as soon as one task has resolved
\* (asyncio.wait with FIRST_COMPLETED).
AnyResolved == \E i \in 1..Len(questions) : task_results[i] # None

AllResolved == \A i \in 1..Len(questions) : task_results[i] # None

\* Variant of JoinEvaluations that goes from the join straight to the feedback
\* agent, the consistency agent left out.
JoinEvaluations_skipping ==
    /\ stage = "Evaluating"
    /\ AllResolved
    /\ evaluation_results' = task_results
    /\ adjusted_corrections' = task_results
    /\ stage' = "Synthesizing"
    /\ UNCHANGED << inputVars, ragIndexed, route, exam_context, providerRaised,
                    questions, parsing_result, evaluation_payload, task_results,
                    out_of_order, evaluator_calls,
                    agent_results, result, persisted, enhanced_feedback, response >>

\* line 90: gather returns once every task has resolved.
JoinEvaluations ==
    /\ stage = "Evaluating"
    /\ AllResolved
    /\ evaluation_results' = task_results
    /\ stage' = "Reconciling"
    /\ UNCHANGED << inputVars, ragIndexed, route, exam_context, providerRaised,
                    questions, parsing_result, evaluation_payload, task_results,
                    out_of_order, evaluator_calls,
                    adjusted_corrections, agent_results, result,
                    persisted, enhanced_feedback, response >>

\* lines 92-109
Reconcile ==
    /\ stage = "Reconciling"
    /\ \E policy \in ConsistencyPolicies(Len(evaluation_results)) :
          LET payload == consistency_process(evaluation_results, policy)
          IN /\ adjusted_corrections' = payload.adjusted_corrections
             /\ agent_results' = Append(agent_results,
                                        agent_result("consistency_checker", payload))
    /\ stage' = "Synthesizing"
    /\ UNCHANGED << inputVars, ragIndexed, route, exam_context, providerRaised,
                    questions, parsing_result, evaluation_payload, task_results,
                    out_of_order, evaluator_calls,
                    evaluation_results, result, persisted, enhanced_feedback,
                    response >>

\* lines 111-157: the feedback agent returns, the totals are computed and the
\* result is returned to correct_single_copy.
Synthesize ==
    /\ stage = "Synthesizing"
    /\ \E mode \in FeedbackModes :
          LET payload == feedback_process(adjusted_corrections, mode)
              audit == Append(agent_results,
                              agent_result("feedback_generator", payload))
          IN /\ agent_results' = audit
             /\ result' = aggregate(adjusted_corrections, payload, audit)
    /\ stage' = "Aggregated"
    /\ route' = "save"
    /\ UNCHANGED << inputVars, ragIndexed, exam_context, providerRaised,
                    questions, parsing_result, evaluation_payload, task_results,
                    out_of_order, evaluator_calls,
                    evaluation_results, adjusted_corrections,
                    persisted, enhanced_feedback, response >>

-----------------------------------------------------------------------------
(* Back in correct_single_copy *)

\* mobile.py lines 152-157 hand enhance_feedback the corrections of the result
\* as they are: QuestionCorrection objects (read by attribute in server.py lines
\* 132-133, turned into dicts with .dict() for the row in line 166), which
\* json.dumps does not accept.
endpoint_corrections_as_json == FALSE

\* lines 151-177: the feedback is enhanced (llm.py lines 70-120) and the row is
\* added and committed; a failing commit raises into the handler's except
\* clause.
SaveResult ==
    /\ route = "save"
    /\ \E cap \in FeedbackCapabilities, committed \in BOOLEAN :
          LET feedback == enhance_feedback(Len(result.corrections),
                                           endpoint_corrections_as_json,
                                           result.total_score,
                                           result.max_score, cap)
          IN /\ enhanced_feedback' = [ status |-> "returned", text |-> feedback ]
             /\ IF committed
                THEN /\ persisted' =
                          Append(persisted, correction_row(result, feedback))
                     /\ route' = "respond"
                     /\ response' = response
                ELSE /\ persisted' = persisted
                     /\ route' = "error"
                     /\ response' = [ status |-> "error" ]
    /\ UNCHANGED << inputVars, ragIndexed, exam_context, providerRaised,
                    pipelineVars >>

\* lines 179-214
Respond ==
    /\ route = "respond"
    /\ response' = build_response(result, enhanced_feedback.text)
    /\ route' = IF response'.status = "ok" THEN "returned" ELSE "error"
    /\ UNCHANGED << inputVars, ragIndexed, exam_context, providerRaised,
                    pipelineVars, persisted, enhanced_feedback >>

Next ==
    \/ LookupExam
    \/ FetchContext
    \/ SeedRag
    \/ StartCorrection
    \/ ParseQuestions
    \/ \E i \in 1..Len(questions) : EvaluatorReturns(i)
    \/ JoinEvaluations
    \/ Reconcile
    \/ Synthesize
    \/ SaveResult
    \/ Respond

Spec == Init /\ [][Next]_vars


-----------------------------------------------------------------------------
(* Evaluator calls that never return, and cancellation of the request *)

\* An evaluator call that has been awaited and will never return.
Hung == [ status |-> "hung" ]
\* An evaluator task that ended with CancelledError.
Cancelled == [ status |-> "cancelled" ]

\* the tasks of gather that have not resolved
InFlight ==
    { i \in 1..Len(evaluation_payload) : evaluation_payload[i] \in {Pending, Hung} }

\* Variant of gather_cancel that leaves the children running (as tasks handed
\* to asyncio.shield would be).
gather_cancel_shielded(payloads) == payloads

\* server.py line 90: cancelling the awaiting flow cancels gather, and gather
\* cancels every awaitable that has not completed yet; CancelledError is not an
\* Exception, so the except clause of line 200 does not turn it into a
\* correction.
gather_cancel(payloads) ==
    [ i \in 1..Len(payloads) |->
        IF payloads[i] \in {Pending, Hung} THEN Cancelled ELSE payloads[i] ]

\* lines 175-183: the await of the evaluator call of task i never completes;
\* neither line 177 nor line 90 puts a timeout on it.
EvaluatorHangs(i) ==
    /\ stage = "Evaluating"
    /\ i \in 1..Len(questions)
    /\ evaluation_payload[i] = Pending
    /\ evaluation_payload' = [ evaluation_payload EXCEPT ![i] = Hung ]
    /\ evaluator_calls' = [ evaluator_calls EXCEPT ![i] = @ + 1 ]
    /\ UNCHANGED << inputVars, ragIndexed, route, exam_context, providerRaised,
                    stage, questions, parsing_result, task_results, out_of_order,
                    evaluation_results, adjusted_corrections, agent_results,
                    result, persisted, enhanced_feedback, response >>

\* The request is cancelled while process_correction awaits gather (line 90) with
\* tasks in flight: CancelledError passes the except clauses of server.py line
\* 159 and of mobile.py line 212, which catch Exception only.
CancelRequest ==
    /\ route = "correct"
    /\ stage = "Evaluating"
    /\ InFlight # {}
    /\ evaluation_payload' = gather_cancel(evaluation_payload)
    /\ stage' = "Cancelled"
    /\ route' = "cancelled"
    /\ UNCHANGED << inputVars, ragIndexed, exam_context, providerRaised,
                    questions, parsing_result, task_results, out_of_order, evaluator_calls,
                   
                    evaluation_results, adjusted_corrections, agent_results,
                    result, persisted, enhanced_feedback, response >>

NextTasks ==
    \/ Next
    \/ \E i \in 1..Len(questions) : EvaluatorHangs(i)
    \/ CancelRequest

\* The event loop runs every step that is ready; it owes nothing to a call that
\* hangs or to a caller that might cancel.
SpecTasks == Init /\ [][NextTasks]_vars /\ WF_vars(Next)

-----------------------------------------------------------------------------
(* Concurrent calls of process_correction on the one MCPServer, and shutdown *)

requestVars == << dbQuestions, extracted_text, ragIndexed, route, exam_context,
                  providerRaised, pipelineVars, persisted, enhanced_feedback, response,
                  llm_call, llm_return >>

\* server.py lines 50-57: call r enters process_correction and creates its lists.
RunStart(r) ==
    /\ runs[r].stage = "Idle"
    /\ runs' = [ runs EXCEPT
                    ![r].stage = "Parsing",
                    ![r].concurrent =
                        \E q \in Requests \ {r} :
                            runs[q].stage \in {"Parsing", "Evaluating",
                                               "Reconciling", "Synthesizing"} ]
    /\ trails' = [ trails EXCEPT ![local_frame(r)] = << >> ]
    /\ UNCHANGED << requestVars, agents_released >>

\* lines 59-88 for call r
RunParse(r) ==
    /\ runs[r].stage = "Parsing"
    /\ LET payload == parser_process(RequestContexts[r], << >>)
           parsed == payload.parsed_questions
       IN /\ runs' = [ runs EXCEPT
                         ![r].stage = "Evaluating",
                         ![r].questions = parsed,
                         ![r].evaluation_payload = [ i \in 1..Len(parsed) |-> Pending ],
                         ![r].task_results = [ i \in 1..Len(parsed) |-> None ] ]
          /\ trails' = [ trails EXCEPT ![local_frame(r)] =
                           Append(@, agent_result("question_parser", payload)) ]
    /\ UNCHANGED << requestVars, agents_released >>

\* lines 164-215 for task i of call r
RunEvaluatorReturns(r, i) ==
    /\ runs[r].stage = "Evaluating"
    /\ i \in 1..Len(runs[r].questions)
    /\ runs[r].evaluation_payload[i] = Pending
    /\ \E outcome \in EvaluatorOutcomes(runs[r].questions[i]) :
          LET correction == evaluate_question(runs[r].questions[i], i, outcome)
          IN IF correction = Raised
             THEN runs' = [ runs EXCEPT ![r].stage = "Failed",
                                        ![r].evaluation_payload[i] = outcome ]
             ELSE runs' = [ runs EXCEPT
                              ![r].evaluation_payload[i] = outcome,
                              ![r].task_results =
                                  gather_store(@, i, correction) ]
    /\ UNCHANGED << requestVars, trails, agents_released >>

\* line 90 for call r
RunJoin(r) ==
    /\ runs[r].stage = "Evaluating"
    /\ \A i \in 1..Len(runs[r].questions) : runs[r].task_results[i] # None
    /\ runs' = [ runs EXCEPT ![r].stage = "Reconciling",
                             ![r].evaluation_results = runs[r].task_results ]
    /\ UNCHANGED << requestVars, trails, agents_released >>

\* lines 92-109 for call r
RunReconcile(r) ==
    /\ runs[r].stage = "Reconciling"
    /\ \E policy \in ConsistencyPolicies(Len(runs[r].evaluation_results)) :
          LET payload == consistency_process(runs[r].evaluation_results, policy)
          IN /\ runs' = [ runs EXCEPT
                            ![r].stage = "Synthesizing",
                            ![r].policy = policy,
                            ![r].adjusted_corrections = payload.adjusted_corrections ]
             /\ trails' = [ trails EXCEPT ![local_frame(r)] =
                              Append(@, agent_result("consistency_checker", payload)) ]
    /\ UNCHANGED << requestVars, agents_released >>

\* lines 111-157 for call r
RunSynthesize(r) ==
    /\ runs[r].stage = "Synthesizing"
    /\ \E mode \in FeedbackModes :
          LET payload == feedback_process(runs[r].adjusted_corrections, mode)
              audit == Append(trails[local_frame(r)],
                              agent_result("feedback_generator", payload))
          IN /\ trails' = [ trails EXCEPT ![local_frame(r)] = audit ]
             /\ runs' = [ runs EXCEPT
                            ![r].stage = "Aggregated",
                            ![r].mode = mode,
                            ![r].result =
                                aggregate(runs[r].adjusted_corrections, payload, audit) ]
    /\ UNCHANGED << requestVars, agents_released >>

\* MCPServer.shutdown, lines 240-255: goes through the agents at once and awaits
\* the shutdown of each that has one; it neither looks at nor waits for the
\* calls of process_correction that are under way, and these go on.
Shutdown ==
    /\ ~ agents_released
    /\ agents_released' = TRUE
    /\ UNCHANGED << requestVars, runs, trails >>

NextServer ==
    \/ \E r \in Requests : RunStart(r)
    \/ \E r \in Requests : RunParse(r)
    \/ \E r \in Requests : \E i \in 1..Len(runs[r].questions) :
          RunEvaluatorReturns(r, i)
    \/ \E r \in Requests : RunJoin(r)
    \/ \E r \in Requests : RunReconcile(r)
    \/ \E r \in Requests : RunSynthesize(r)
    \/ Shutdown

InitServer ==
    /\ Init
    /\ dbQuestions = << >>
    /\ ragIndexed = FALSE
    /\ extracted_text = << >>

SpecServer == InitServer /\ [][NextServer]_vars

-----------------------------------------------------------------------------
(* Grades: _calculate_grade and get_exam_results over any percentage *)

\* largest percentage a graded result is given, in hundredths of a percent
MaxGradeInput == 10000

\* line 409: the percentages of the completed rows, the falsy ones (0) left out
exam_scores(rows) ==
    LET all == [ r \in 1..Len(rows) |-> rows[r].percentage ]
        Kept(x) == x # 0
    IN SelectSeq(all, Kept)

\* lines 417-423: the band a score is counted in
band_of(x) ==
    IF x >= 85 * 100 THEN "A"
    ELSE IF 70 * 100 <= x /\ x < 85 * 100 THEN "B"
    ELSE IF 55 * 100 <= x /\ x < 70 * 100 THEN "C"
    ELSE IF 40 * 100 <= x /\ x < 55 * 100 THEN "D"
    ELSE IF x < 40 * 100 THEN "F"
    ELSE "none"

CountBand(scores, letter) ==
    Cardinality({ i \in 1..Len(scores) : band_of(scores[i]) = letter })

\* get_exam_results, mobile.py lines 388-424
exam_results(rows) ==
    LET scores == exam_scores(rows)
    IN [ status |-> "stats",
         total_copies |-> Len(rows),
         scores |-> scores,
         stats |-> [ A |-> CountBand(scores, "A"), B |-> CountBand(scores, "B"),
                     C |-> CountBand(scores, "C"), D |-> CountBand(scores, "D"),
                     F |-> CountBand(scores, "F") ] ]

\* A result of one question whose percentage is p hundredths of a percent.
GradedResult(p) ==
    aggregate(<< [ question_number |-> 1, student_answer |-> 120,
                   points_awarded |-> p, max_points |-> 10000,
                   feedback |-> "llm", confidence_score |-> 85 ] >>,
              feedback_process(<< >>, "narrative"), << >>)

\* A request that has committed a result of any percentage and is about to
\* build its response.
InitGrade ==
    /\ \E p \in 0..MaxGradeInput :
          LET feedback == generate_basic_feedback(p, 10000)
          IN /\ result = GradedResult(p)
             /\ enhanced_feedback = [ status |-> "returned", text |-> feedback ]
             /\ persisted = << correction_row(GradedResult(p), feedback) >>
    /\ dbQuestions = << 10000 >>
    /\ ragIndexed = TRUE
    /\ extracted_text = << >>
    /\ route = "respond"
    /\ exam_context = get_exam_context("ok", TRUE, << 10000 >>)
    /\ providerRaised = FALSE
    /\ stage = "Aggregated"
    /\ questions = << >>
    /\ parsing_result = None
    /\ evaluation_payload = << >>
    /\ task_results = << >>
    /\ out_of_order = FALSE
    /\ evaluator_calls = << >>
    /\ evaluation_results = << >>
    /\ adjusted_corrections = << >>
    /\ agent_results = << >>
    /\ response = None
    /\ NoCapabilityCall
    /\ InitServerVars

\* The endpoint GET /results/{exam_id}, asked once the request is over.
GetExamResults ==
    /\ route \in {"returned", "error"}
    /\ response' = exam_results(persisted)
    /\ route' = "stats"
    /\ UNCHANGED << inputVars, ragIndexed, exam_context, providerRaised,
                    pipelineVars, persisted, enhanced_feedback >>

NextGrade == Respond \/ GetExamResults

SpecGrade == InitGrade /\ [][NextGrade]_vars

-----------------------------------------------------------------------------
(* Properties *)

\* gather has returned: the Evaluating stage is over
Joined == stage \in {"Reconciling", "Synthesizing", "Aggregated"}

FailedTasks ==
    { k \in 1..Len(evaluation_payload) : evaluation_payload[k] = Raised }

\* The correction question i is due, from what its own evaluator call came to
\* and from nothing else.
DueCorrection(i) ==
    IF evaluation_payload[i] = Raised
    THEN [ question_number |-> i, student_answer |-> 0, points_awarded |-> 0,
           max_points |-> questions[i].max_points, feedback |-> "error",
           confidence_score |-> 0 ]
    ELSE [ question_number |-> i,
           student_answer |-> evaluation_payload[i].extracted_answer,
           points_awarded |-> evaluation_payload[i].points_awarded,
           max_points |-> questions[i].max_points,
           feedback |-> evaluation_payload[i].feedback,
           confidence_score |-> evaluation_payload[i].confidence ]

DueCorrections == [ i \in 1..Len(questions) |-> DueCorrection(i) ]

\* C1 - failure isolation.  When the evaluator call of exactly one question k
\* raises, process_correction does not fail and the pending sibling tasks can
\* still resolve; once gather has returned there are as many corrections as
\* parsed questions, correction k has 0 points, confidence 0 and the error note
\* as feedback, and every other correction is the one its own evaluator payload
\* gives, as in a run without the failure.
C1_FailureIsolation ==
    Cardinality(FailedTasks) = 1 =>
        /\ stage # "Failed"
        /\ stage = "Evaluating" =>
              \A i \in 1..Len(questions) :
                  evaluation_payload[i] = Pending => ENABLED EvaluatorReturns(i)
        /\ Joined =>
              /\ Len(evaluation_results) = Len(questions)
              /\ \A k \in 1..Len(questions) :
                    IF k \in FailedTasks
                    THEN /\ evaluation_results[k].points_awarded = 0
                         /\ evaluation_results[k].confidence_score = 0
                         /\ evaluation_results[k].feedback = "error"
                    ELSE evaluation_results[k] = DueCorrection(k)

\* Scenario B of section 8: max points 2, 3, 5, the second evaluator call raises,
\* the others give 2 and 0 points; the total is 2.0 and the percentage 20.0.
C1_Witness ==
    /\ stage = "Aggregated"
    /\ Len(questions) = 3
    /\ FailedTasks = {2}
    /\ evaluation_results[1].points_awarded = 20
    /\ evaluation_results[2].points_awarded = 0
    /\ evaluation_results[3].points_awarded = 0
    /\ result.total_score = 20
    /\ result.percentage = 2000

\* C2 - order invariance.  In whatever order the evaluator tasks resolve, the
\* list gather hands to the consistency agent holds at position i the
\* correction of question i (so it is ordered by ascending question number),
\* and the totals of the result are those of that list once reconciled: they
\* depend on the evaluator payloads, not on the order of completion.
C2_OrderInvariance ==
    /\ Joined =>
          /\ Len(evaluation_results) = Len(questions)
          /\ \A i \in 1..Len(questions) :
                /\ evaluation_results[i].question_number = i
                /\ evaluation_results[i] = DueCorrection(i)
    /\ stage = "Aggregated" =>
          \E policy \in ConsistencyPolicies(Len(questions)) :
              LET due == consistency_process(DueCorrections, policy).adjusted_corrections
              IN /\ result.corrections = due
                 /\ result.total_score = SumOf(due, "points_awarded")
                 /\ result.max_score = SumOf(due, "max_points")
                 /\ result.percentage =
                        percentage_of(SumOf(due, "points_awarded"),
                                      SumOf(due, "max_points"))

\* A run in which a task resolved before a task of a lower number, with
\* corrections that differ between the two positions.
C2_Witness ==
    /\ stage = "Aggregated"
    /\ out_of_order
    /\ Len(questions) >= 2
    /\ evaluation_results[1].points_awarded # evaluation_results[2].points_awarded
    /\ result.total_score > 0


RangeOf(seq) == { seq[i] : i \in 1..Len(seq) }

\* Every QuestionCorrection there is: resolved by a task, handed over by gather,
\* adjusted, in the result, in a committed row, in the response.
AllCorrections ==
    { c \in RangeOf(task_results) : c # None }
    \cup RangeOf(evaluation_results)
    \cup RangeOf(adjusted_corrections)
    \cup (IF result = None THEN {} ELSE RangeOf(result.corrections))
    \cup UNION { RangeOf(persisted[r].corrections) : r \in 1..Len(persisted) }
    \cup (IF response = None \/ response.status # "ok" THEN {}
          ELSE RangeOf(response.corrections))

C4_PercentageRange ==
    result # None =>
        /\ 0 <= result.percentage
        /\ result.percentage <= 100 * 100
        /\ result.max_score = 0 => result.percentage = 0

\* A result over no question at all: max_score 0 and percentage 0.
C4_Witness ==
    /\ stage = "Aggregated"
    /\ result # None
    /\ result.max_score = 0
    /\ result.percentage = 0

\* C5 - max_score of the result is the sum of max_points of the questions the
\* parser produced in this run, whatever the consistency agent did.
C5_MaxScore ==
    result # None => result.max_score = SumOf(questions, "max_points")

\* A result whose corrections the consistency agent softened, over questions of
\* different max_points.
C5_Witness ==
    /\ result # None
    /\ Len(questions) >= 2
    /\ questions[1].max_points # questions[2].max_points
    /\ result.corrections # evaluation_results
    /\ result.max_score = questions[1].max_points + questions[2].max_points

\* C6 - total_score of the result is the sum of points_awarded over the
\* corrections of that result, and for max_score > 0 the percentage is
\* total_score / max_score * 100 (here to the hundredth of a percent).
C6_Totals ==
    result # None =>
        /\ result.total_score = SumOf(result.corrections, "points_awarded")
        /\ result.max_score > 0 =>
              /\ result.percentage * result.max_score <= result.total_score * 10000
              /\ result.total_score * 10000 < (result.percentage + 1) * result.max_score

\* Scenario A of section 8: max points 2, 3, 5, awarded 2, 1.5, 0: total 3.5,
\* percentage 35.0, grade F.
C6_Witness ==
    /\ route = "returned"
    /\ Len(result.corrections) = 3
    /\ [ i \in 1..3 |-> result.corrections[i].max_points ] = << 20, 30, 50 >>
    /\ [ i \in 1..3 |-> result.corrections[i].points_awarded ] = << 20, 15, 0 >>
    /\ result.total_score = 35
    /\ result.max_score = 100
    /\ result.percentage = 3500
    /\ response.grade = "F"


\* C7 - the grade letter follows the percentage with thresholds inclusive at the
\* lower bound: >= 85 A, >= 70 B, >= 55 C, >= 40 D, lower F; every percentage in
\* [0, 100] gets exactly one letter, and the bands of get_exam_results count
\* every score they are given in exactly the band of its letter.
C7_GradeBands ==
    /\ response.status = "ok" =>
          LET p == response.percentage
              g == response.grade
          IN /\ g \in {"A", "B", "C", "D", "F"}
             /\ g = "A" <=> p >= 8500
             /\ g = "B" <=> (7000 <= p /\ p < 8500)
             /\ g = "C" <=> (5500 <= p /\ p < 7000)
             /\ g = "D" <=> (4000 <= p /\ p < 5500)
             /\ g = "F" <=> p < 4000
    /\ (route = "respond" /\ result.percentage <= 100 * 100) =>
          build_response(result, "").status = "ok"
    /\ response.status = "stats" =>
          \A i \in 1..Len(response.scores) :
              LET g == calculate_grade(response.scores[i])
              IN /\ response.stats[g] = 1
                 /\ response.stats.A + response.stats.B + response.stats.C
                      + response.stats.D + response.stats.F = Len(response.scores)

\* The response for a percentage of exactly 85.00: the letter is A.
C7_Witness ==
    /\ response.status = "ok"
    /\ response.percentage = 8500
    /\ response.grade = "A"

PipelineNext ==
    \/ \E i \in 1..Len(questions) : EvaluatorReturns(i)
    \/ JoinEvaluations
    \/ Reconcile
    \/ Synthesize

\* C8 - process_correction fails only before the parser has returned; once the
\* Evaluating stage has started, an evaluator call that raises, a consistency
\* agent that fails and a feedback agent that degrades never make it fail: the
\* run can always go on, and it stops in Aggregated only.
C8_NoFailureAfterParsing ==
    /\ stage = "Failed" => (parsing_result = None /\ evaluation_payload = << >>)
    /\ stage \in {"Evaluating", "Reconciling", "Synthesizing"} =>
          ENABLED PipelineNext
    /\ (parsing_result # None /\ ~ ENABLED PipelineNext) =>
          (stage = "Aggregated" /\ result # None)

\* A run that ended in Aggregated although an evaluator call raised, the
\* consistency agent failed and the feedback agent fell back on its template.
C8_Witness ==
    /\ stage = "Aggregated"
    /\ FailedTasks # {}
    /\ agent_results[2].agent_name = "consistency_checker"
    /\ agent_results[2].status = "error"
    /\ result.feedback = "templated"
    /\ Len(result.corrections) = Len(questions)

MinimalContext == [ questions |-> << >>, error |-> TRUE ]

C10_NoQuestions ==
    ( /\ parsing_result # None
      /\ exam_context.questions = << >>
      /\ extract_questions_from_text(extracted_text) = << >> ) =>
        /\ questions = << >>
        /\ stage # "Failed"
        /\ stage # "Aggregated" => ENABLED PipelineNext
        /\ stage = "Aggregated" =>
              /\ result.corrections = << >>
              /\ result.total_score = 0
              /\ result.max_score = 0
              /\ result.percentage = 0
              /\ [ i \in 1..Len(agent_results) |-> agent_results[i].agent_name ]
                    = << "question_parser", "consistency_checker",
                         "feedback_generator" >>

\* A returned response over no question: the transcript has one marker whose
\* captured text is too short.
C10_Witness ==
    /\ route = "returned"
    /\ exam_context.questions = << >>
    /\ Len(extracted_text) = 1
    /\ questions = << >>
    /\ result.corrections = << >>
    /\ result.percentage = 0
    /\ Len(agent_results) = 3

AuditNamesOf(trail) == [ i \in 1..Len(trail) |-> trail[i].agent_name ]

AuditNames == AuditNamesOf(agent_results)

\* C11 - every stage that is invoked (Parsing, Evaluating, Reconciling,
\* Synthesizing) appends exactly one record to the audit trail, so a run over at
\* least one question that has reached Aggregated has one record per stage, in
\* stage order, each with the confidence its stage reported.
C11_AuditPerStage ==
    (stage = "Aggregated" /\ questions # << >>) =>
        /\ AuditNames = << "question_parser", "answer_evaluator",
                           "consistency_checker", "feedback_generator" >>
        /\ agent_results[1].confidence = parsing_result.confidence

\* C12 - an evaluator call that never responds is cut off by a per-question
\* timeout and its task is then treated as a failed one, so the run goes on and
\* eventually reaches Aggregated (unless the request is cancelled).
C12_HungTaskTimesOut ==
    (\E i \in 1..Len(evaluation_payload) : evaluation_payload[i] = Hung)
        ~> (stage \in {"Aggregated", "Cancelled"})

\* C13 - when the request is cancelled with evaluator tasks in flight, every
\* task that had not resolved is cancelled (none is left pending or hanging, and
\* none can still resolve), and no result is built, committed or returned.
C13_CancellationPropagates ==
    stage = "Cancelled" =>
        /\ InFlight = {}
        /\ \A i \in 1..Len(questions) : ~ ENABLED EvaluatorReturns(i)
        /\ route = "cancelled"
        /\ result = None
        /\ persisted = << >>
        /\ response = None
        /\ ~ ENABLED Next

\* A cancelled request of two questions: one task had resolved to a correction
\* with points, the other was in flight; nothing was emitted.
C13_Witness ==
    /\ stage = "Cancelled"
    /\ Len(questions) = 2
    /\ task_results[1] # None
    /\ task_results[1].points_awarded > 0
    /\ evaluation_payload[2] = Cancelled
    /\ result = None
    /\ persisted = << >>

\* What call r returns when it is the only call on the server, given what its
\* own agents answered: its own parser payload, its own evaluator outcomes, the
\* decision of its consistency call and the mode of its feedback call.
SoloResult(r) ==
    LET parsing == parser_process(RequestContexts[r], << >>)
        parsed == parsing.parsed_questions
        due == [ i \in 1..Len(parsed) |->
                   evaluate_question(parsed[i], i, runs[r].evaluation_payload[i]) ]
        consistency == consistency_process(due, runs[r].policy)
        feedback == feedback_process(consistency.adjusted_corrections, runs[r].mode)
    IN aggregate(consistency.adjusted_corrections, feedback,
                 << agent_result("question_parser", parsing),
                    agent_result("consistency_checker", consistency),
                    agent_result("feedback_generator", feedback) >>)

\* C14 - two requests processed at the same time on one MCPServer, in whatever
\* order their stages interleave, each get the result and the audit trail they
\* get when run alone: the trail of a call holds the records of its own stages
\* only, and its corrections are those of its own questions.
C14_RequestsIndependent ==
    \A r \in Requests :
        /\ runs[r].stage # "Failed"
        /\ runs[r].stage = "Aggregated" =>
              /\ runs[r].result = SoloResult(r)
              /\ Len(runs[r].result.agent_results) = 3
              /\ \A i \in 1..Len(runs[r].result.corrections) :
                    runs[r].result.corrections[i].max_points
                        = RequestContexts[r].questions[i].max_points
        /\ runs[r].stage \in {"Evaluating", "Reconciling", "Synthesizing"} =>
              AuditNamesOf(trails[local_frame(r)])
                  \in { << "question_parser" >>,
                        << "question_parser", "consistency_checker" >> }

\* Both requests have returned, and the second started while the first was
\* under way: their stages were interleaved.
C14_Witness ==
    /\ runs[2].concurrent
    /\ runs[1].stage = "Aggregated"
    /\ runs[2].stage = "Aggregated"
    /\ runs[1].result.total_score # runs[2].result.total_score
    /\ runs[1].result.max_score = 20
    /\ runs[2].result.max_score = 50

\* C15 - shutdown() is a drain: the agents are released only when no call of
\* process_correction is under way (every call has not started, or has ended in
\* Aggregated or Failed).
C15_ShutdownDrains ==
    [][ (~ agents_released /\ agents_released') =>
            \A r \in Requests : runs[r].stage \in {"Idle", "Aggregated", "Failed"} ]_vars

\* C16 - within a run the stages come in the order Parsing, Evaluating,
\* Reconciling, Synthesizing, Aggregated, none skipped, none repeated, and the
\* parser, the consistency agent and the feedback agent have each been called
\* exactly once by the time their stage is over and not before it starts.
C16_StageOrder ==
    /\ [][ stage' # stage =>
              << stage, stage' >> \in
                  { << "Idle", "Parsing" >>, << "Parsing", "Evaluating" >>,
                    << "Evaluating", "Reconciling" >>,
                    << "Reconciling", "Synthesizing" >>,
                    << "Synthesizing", "Aggregated" >> } ]_vars
    /\ [] ( /\ stage \in {"Idle", "Parsing"} => AuditNames = << >>
            /\ stage \in {"Evaluating", "Reconciling"} =>
                  AuditNames = << "question_parser" >>
            /\ stage = "Synthesizing" =>
                  AuditNames = << "question_parser", "consistency_checker" >>
            /\ stage = "Aggregated" =>
                  AuditNames = << "question_parser", "consistency_checker",
                                  "feedback_generator" >>
            /\ stage \in {"Idle", "Parsing", "Evaluating", "Reconciling",
                          "Synthesizing", "Aggregated"} )

\* A run over two questions that went through every stage.
C16_Witness ==
    /\ stage = "Aggregated"
    /\ Len(questions) = 2
    /\ Len(result.corrections) = 2
    /\ AuditNames = << "question_parser", "consistency_checker",
                       "feedback_generator" >>

\* C17 - join barrier.  The consistency agent is called only once every one of
\* the N evaluator tasks of the run has resolved, to a correction of its
\* evaluator or to the degraded one: while a task is pending or hanging the run
\* stays in Evaluating, and Reconciling gets all N results.
C17_JoinBarrier ==
    /\ (stage \in {"Reconciling", "Synthesizing", "Aggregated"}
          \/ "consistency_checker" \in RangeOf(AuditNames)) =>
          /\ InFlight = {}
          /\ \A i \in 1..Len(questions) : task_results[i] # None
          /\ Len(evaluation_results) = Len(questions)
          /\ evaluation_results = task_results
    /\ (stage = "Evaluating" /\ InFlight # {}) => ~ ENABLED JoinEvaluations

\* The run is in Reconciling over two questions, of which the second resolved
\* first and one failed.
C17_Witness ==
    /\ stage = "Reconciling"
    /\ Len(questions) = 2
    /\ out_of_order
    /\ FailedTasks # {}
    /\ Len(evaluation_results) = 2

\* C18 - in one run the answer evaluator is called exactly once for each parsed
\* question: N questions give N tasks, numbered 1..N, each of which has made no
\* call while it is pending and exactly one once it has resolved, also when that
\* call raised; and the consistency and the feedback agent, failed or not, have
\* been called at most once.
C18_OneCallPerQuestion ==
    /\ parsing_result # None =>
          /\ Len(evaluator_calls) = Len(questions)
          /\ Len(evaluation_payload) = Len(questions)
          /\ \A i \in 1..Len(questions) :
                /\ evaluator_calls[i] = IF evaluation_payload[i] = Pending THEN 0 ELSE 1
                /\ task_results[i] # None => task_results[i].question_number = i
          /\ Joined => evaluator_calls = [ i \in 1..Len(questions) |-> 1 ]
    /\ \A name \in {"consistency_checker", "feedback_generator"} :
          Cardinality({ k \in 1..Len(agent_results) :
                          agent_results[k].agent_name = name }) <= 1

\* A finished run of two questions in which one evaluator call raised and the
\* consistency agent failed: two calls of the evaluator in all, one record of
\* the consistency agent.
C18_Witness ==
    /\ stage = "Aggregated"
    /\ Len(questions) = 2
    /\ FailedTasks = {1}
    /\ evaluator_calls = << 1, 1 >>
    /\ agent_results[2].status = "error"
    /\ Len(agent_results) = 3

ConsistencyFailed ==
    /\ Len(agent_results) >= 2
    /\ agent_results[2].agent_name = "consistency_checker"
    /\ agent_results[2].status = "error"

\* C19 - when the consistency agent fails internally the run does not fail: the
\* corrections handed to the feedback agent and carried by the result are the
\* corrections of Evaluating, unadjusted, and the totals are theirs.
C19_ConsistencyFailurePassesThrough ==
    ConsistencyFailed =>
        /\ stage \in {"Synthesizing", "Aggregated"}
        /\ adjusted_corrections = evaluation_results
        /\ stage = "Synthesizing" => ENABLED Synthesize
        /\ stage = "Aggregated" =>
              /\ result.corrections = evaluation_results
              /\ result.total_score = SumOf(evaluation_results, "points_awarded")
              /\ result.max_score = SumOf(evaluation_results, "max_points")

\* A returned result of two corrections with points, after a failure of the
\* consistency agent.
C19_Witness ==
    /\ ConsistencyFailed
    /\ route = "returned"
    /\ Len(result.corrections) = 2
    /\ result.corrections = evaluation_results
    /\ result.total_score > 0

\* C20 - reconciliation preserves the question set: the corrections of the
\* result are as many as those of Evaluating, with the same question numbers in
\* the same order, and differ from them in points_awarded and confidence at
\* most (student answer, max_points and feedback are those of Evaluating).
C20_ReconciliationFrame ==
    LET Frame(c) == [ question_number |-> c.question_number,
                      student_answer |-> c.student_answer,
                      max_points |-> c.max_points,
                      feedback |-> c.feedback ]
        FrameOf(seq) == [ i \in 1..Len(seq) |-> Frame(seq[i]) ]
    IN /\ stage \in {"Synthesizing", "Aggregated"} =>
             FrameOf(adjusted_corrections) = FrameOf(evaluation_results)
       /\ result # None =>
             /\ result.corrections = adjusted_corrections
             /\ Len(result.corrections) = Len(evaluation_results)
             /\ FrameOf(result.corrections) = FrameOf(evaluation_results)
             /\ \A i \in 1..Len(result.corrections) :
                   result.corrections[i].question_number = i

\* A result in which reconciliation lowered the points of the second of two
\* corrections and left the first as it was.
C20_Witness ==
    /\ stage = "Aggregated"
    /\ Len(result.corrections) = 2
    /\ result.corrections[1] = evaluation_results[1]
    /\ result.corrections[2].points_awarded < evaluation_results[2].points_awarded
    /\ result.corrections[2].feedback = evaluation_results[2].feedback

-----------------------------------------------------------------------------
(* The question parser on its own: QuestionParserAgent.process under every  *)
(* exam context and transcript, called as process_correction calls it.      *)

\* families of cue words a text may hold (_detect_question_type, lines 145-153)
ParserCues == { {}, {"computational"}, {"comparison", "choice"} }

\* What a transcript holds for the parser: the matches of the three patterns of
\* lines 80-84, in the order the loops of lines 86-89 meet them, each with the
\* number of its marker, the length of the stripped captured text and the cue
\* words in it.  A marker that two patterns match ("Q1." is matched by the
\* second and by the third) appears once for each.
ParserMatches ==
    [ num : {1, 7}, len : {0, MinTextLen - 1, MinTextLen, MinTextLen + 1},
      cues : {{}, {"computational"}} ]
    \cup [ num : {2}, len : {TextLimit + 100}, cues : {{"explanatory"}} ]

ParserTexts == BoundedSeq(ParserMatches, 2)

\* What a list of questions of an exam context may hold: a question as
\* get_exam_context builds it, under another number than its position; a dict
\* with nothing but a text; a dict whose max_points is not a number; and two
\* entries that are no dict with a "text".
ParserEntries ==
    { [ number |-> 3, text_len |-> 20, type |-> "short_answer",
        max_points |-> 20, extracted |-> FALSE ],
      [ text_len |-> 20 ],
      [ text_len |-> 20, type |-> "essay", max_points_not_a_number |-> TRUE ] }
    \cup [ str_len : {TextLimit + 100}, cues : ParserCues ]

\* The exam contexts: no dict at all, a dict without the key "questions" (never
\* built by get_exam_context, whose two branches are the other two shapes), and
\* dicts with a list of questions.
ParserContexts ==
    { None, [ error |-> TRUE ] }
    \cup { [ questions |-> qs, error |-> e ] :
             qs \in BoundedSeq(ParserEntries, 2), e \in BOOLEAN }

InitParser ==
    /\ dbQuestions = << >>
    /\ ragIndexed = FALSE
    /\ extracted_text \in ParserTexts
    /\ route = "correct"
    /\ exam_context \in ParserContexts
    /\ providerRaised = FALSE
    /\ stage = "Parsing"
    /\ questions = << >>
    /\ parsing_result = None
    /\ evaluation_payload = << >>
    /\ task_results = << >>
    /\ out_of_order = FALSE
    /\ evaluator_calls = << >>
    /\ evaluation_results = << >>
    /\ adjusted_corrections = << >>
    /\ agent_results = << >>
    /\ result = None
    /\ persisted = << >>
    /\ response = None
    /\ enhanced_feedback = None
    /\ NoCapabilityCall
    /\ InitServerVars

NextParser == ParseQuestions

SpecParser == InitParser /\ [][NextParser]_vars

\* the parser has returned its payload to process_correction
ParserReturned == parsing_result # None

\* exam_context.get("questions") is a non-empty list (lines 32-34 and 53)
ContextHasQuestions ==
    /\ exam_context # None
    /\ "questions" \in DOMAIN exam_context
    /\ exam_context.questions # << >>

\* C23: the parser reports its source and its confidence by case: questions
\* taken from the exam context give the method "rag_context" and confidence 0.9,
\* questions recovered from the transcript give "text_extraction" and 0.5, and
\* an empty list of questions gives confidence 0.
C23_MethodAndConfidence ==
    (ParserReturned /\ parsing_result.status = "success") =>
        /\ (ContextHasQuestions /\ questions # << >>) =>
              /\ parsing_result.parsing_method = "rag_context"
              /\ parsing_result.confidence = 90
        /\ (~ ContextHasQuestions /\ questions # << >>) =>
              /\ parsing_result.parsing_method = "text_extraction"
              /\ parsing_result.confidence = 50
        /\ (questions = << >>) => parsing_result.confidence = 0

\* C24: for every parser output of N questions, from the context or from the
\* transcript, the numbers of the parsed questions are exactly 1..N in list
\* order: the i-th parsed question has number i, whatever number its source
\* question or its marker carried.
C24_DenseNumbers ==
    ParserReturned =>
        \A i \in 1..Len(questions) : questions[i].number = i

\* C25: the question_number of every QuestionCorrection is the number of the
\* parsed question it was evaluated from, in the tasks' results and in the
\* result of the run.
C25_NumberMirrors ==
    /\ \A i \in 1..Len(task_results) :
          task_results[i] # None =>
              task_results[i].question_number = questions[i].number
    /\ result # None =>
          \A i \in 1..Len(result.corrections) :
              result.corrections[i].question_number = questions[i].number

\* something raises inside the try of process: the exam context is no dict, or
\* a question of the context has a max_points that float() refuses
ParserInternalFailure ==
    \/ exam_context = None
    \/ /\ ContextHasQuestions
       /\ \E i \in 1..Len(exam_context.questions) :
             /\ "text_len" \in DOMAIN exam_context.questions[i]
             /\ "max_points_not_a_number" \in DOMAIN exam_context.questions[i]

\* C26: the question parser never raises to process_correction: for every exam
\* context and transcript, malformed question entries included, process returns
\* a payload and the run goes on to Evaluating; an internal failure, and nothing
\* else, gives the payload with an empty list of parsed questions and an error
\* marker, which process_correction reads with its defaults.
C26_ParserNeverRaises ==
    /\ stage # "Failed"
    /\ (stage = "Parsing") => ENABLED ParseQuestions
    /\ (stage # "Parsing") =>
          /\ ParserReturned
          /\ stage = "Evaluating"
          /\ "parsed_questions" \in DOMAIN parsing_result
          /\ questions = parsing_result.parsed_questions
          /\ Len(evaluation_payload) = Len(questions)
          /\ (parsing_result.status = "error") <=> ParserInternalFailure
          /\ (parsing_result.status = "error") =>
                /\ parsing_result.parsed_questions = << >>
                /\ "error" \in DOMAIN parsing_result
                /\ agent_results[1].confidence = default_confidence("question_parser")

\* a context whose second question has a max_points that is not a number: the
\* parser has returned the error payload and the run is in Evaluating with no
\* task
C26_Witness ==
    /\ ParserReturned
    /\ exam_context # None
    /\ ContextHasQuestions
    /\ Len(exam_context.questions) = 2
    /\ "max_points_not_a_number" \in DOMAIN exam_context.questions[2]
    /\ "max_points_not_a_number" \notin DOMAIN exam_context.questions[1]
    /\ parsing_result.status = "error"
    /\ questions = << >>
    /\ stage = "Evaluating"

\* the matches of the transcript that _extract_questions_from_text keeps
\* (line 93), in order
KeptMatches == SelectSeq(extracted_text, LAMBDA m : m.len > 0 /\ m.len > MinTextLen)

\* C27: every parsed question has a type of the closed set essay,
\* multiple-choice, true/false, short-answer, calculation (under the spellings
\* of the code), and a question
\* recovered from the transcript has the type inferred from the cue words of its
\* text, essay when it has none.
C27_TypeClosedSet ==
    ParserReturned =>
        /\ \A i \in 1..Len(questions) :
              questions[i].type \in { "essay", "multiple_choice", "true_false",
                                      "short_answer", "calculation" }
        /\ (parsing_result.status = "success"
              /\ parsing_result.parsing_method = "text_extraction") =>
              \A i \in 1..Len(questions) :
                  questions[i].type = detect_question_type(KeptMatches[i].cues)

\* C28: in text extraction a match is discarded exactly when its captured text
\* is shorter than 10 characters: the parsed questions are, in order, the
\* matches whose captured text has 10 characters or more, each with 1 point.
C28_MinimumLength ==
    (ParserReturned /\ parsing_result.status = "success"
       /\ ~ ContextHasQuestions) =>
        LET kept == SelectSeq(extracted_text, LAMBDA m : m.len >= MinTextLen)
        IN /\ Len(questions) = Len(kept)
           /\ \A i \in 1..Len(questions) :
                 /\ questions[i].text_len = Min(kept[i].len, TextLimit)
                 /\ questions[i].max_points = 10

\* C22: when the context provider is unreachable or returns nothing,
\* get_exam_context yields a context without questions instead of failing; the
\* parser then takes the text-extraction path, its questions are those of the
\* transcript, and the run goes on to a normal result.
C22_ContextUnavailable ==
    /\ providerRaised =>
          /\ exam_context # None
          /\ exam_context.error
          /\ exam_context.questions = << >>
    /\ (ParserReturned /\ exam_context.questions = << >>) =>
          LET recovered == extract_questions_from_text(extracted_text)
          IN /\ parsing_result.status = "success"
             /\ parsing_result.parsing_method = "text_extraction"
             /\ questions = [ i \in 1..Len(recovered) |->
                                parse_question(recovered[i], i) ]
             /\ stage # "Failed"
             /\ stage \in {"Evaluating", "Reconciling", "Synthesizing"} =>
                   ENABLED PipelineNext
             /\ stage = "Aggregated" =>
                   /\ result # None
                   /\ Len(result.corrections) = Len(recovered)
                   /\ result.max_score = 10 * Len(recovered)

\* the retrieval raised, the question of the result is the one recovered from
\* the transcript, and the caller has its response
C22_Witness ==
    /\ providerRaised
    /\ exam_context.error
    /\ parsing_result # None
    /\ parsing_result.parsing_method = "text_extraction"
    /\ Len(questions) = 1
    /\ questions[1].text_len = MinTextLen + 1
    /\ stage = "Aggregated"
    /\ result.max_score = 10
    /\ response.status = "ok"

-----------------------------------------------------------------------------
(* The wrapper of the reasoning capability on its own: correct_answer and    *)
(* enhance_feedback of GeminiProcessor under every response.                *)

\* lengths of the stripped student answer, around the thresholds of lines
\* 287-292
LlmAnswerLens == {0, 50, 51, 100, 101}

CorrectAnswerCalls ==
    [ fn : {"correct_answer"}, answer_len : LlmAnswerLens,
      max_points : MaxPointsSet \cup {10}, cap : Capabilities ]

\* the scores are in tenths of a point: 0, 1.0, 1.4 and 1.7 of 2.0, and the
\* empty exam
EnhanceFeedbackCalls ==
    [ fn : {"enhance_feedback"}, n_corrections : {0, 2}, as_json : BOOLEAN,
      total_score : {0, 10, 14, 17}, max_score : {0, 20},
      cap : FeedbackCapabilities ]

InitLlm ==
    /\ dbQuestions = << >>
    /\ ragIndexed = FALSE
    /\ extracted_text = << >>
    /\ route = "lookup"
    /\ exam_context = None
    /\ providerRaised = FALSE
    /\ stage = "Idle"
    /\ questions = << >>
    /\ parsing_result = None
    /\ evaluation_payload = << >>
    /\ task_results = << >>
    /\ out_of_order = FALSE
    /\ evaluator_calls = << >>
    /\ evaluation_results = << >>
    /\ adjusted_corrections = << >>
    /\ agent_results = << >>
    /\ result = None
    /\ persisted = << >>
    /\ response = None
    /\ enhanced_feedback = None
    /\ llm_call \in CorrectAnswerCalls \cup EnhanceFeedbackCalls
    /\ llm_return = None
    /\ InitServerVars

\* what the caller of a wrapper receives
Returned(value) == [ status |-> "returned", value |-> value ]

\* llm.py lines 31-68
CorrectAnswer ==
    /\ llm_call.fn = "correct_answer"
    /\ llm_return = None
    /\ llm_return' = Returned(correct_answer(llm_call.answer_len,
                                             llm_call.max_points, llm_call.cap))
    /\ UNCHANGED << dbQuestions, extracted_text, runs, trails, agents_released,
                    llm_call, ragIndexed, route, exam_context, providerRaised,
                    pipelineVars, persisted, enhanced_feedback, response >>

\* llm.py lines 70-120
EnhanceFeedback ==
    /\ llm_call.fn = "enhance_feedback"
    /\ llm_return = None
    /\ llm_return' = Returned(enhance_feedback(llm_call.n_corrections,
                                               llm_call.as_json,
                                               llm_call.total_score,
                                               llm_call.max_score, llm_call.cap))
    /\ UNCHANGED << dbQuestions, extracted_text, runs, trails, agents_released,
                    llm_call, ragIndexed, route, exam_context, providerRaised,
                    pipelineVars, persisted, enhanced_feedback, response >>

NextLlm == CorrectAnswer \/ EnhanceFeedback

SpecLlm == InitLlm /\ [][NextLlm]_vars

\* C29: whenever the reasoning capability is unavailable or its response cannot
\* be parsed, the correction is the heuristic one of the student answer that
\* correct_answer was given: 0.8 x max_points above 100 characters, 0.5 x above
\* 50, 0.2 x otherwise, with confidence 0.3, the same for both triggers.
C29_FallbackHeuristic ==
    ( /\ llm_return # None
      /\ llm_call.fn = "correct_answer"
      /\ llm_call.cap.kind # "json" ) =>
        LET L == llm_call.answer_len
            max_points == llm_call.max_points
        IN /\ llm_return.status = "returned"
           /\ llm_return.value.confidence = 30
           /\ llm_return.value.points_awarded =
                 IF L > 100 THEN (max_points * 8) \div 10
                 ELSE IF L > 50 THEN (max_points * 5) \div 10
                 ELSE (max_points * 2) \div 10

\* C30: a non-conforming, empty or failing response of the reasoning capability
\* is never fatal: correct_answer and enhance_feedback return to their caller
\* under every response, with the fallback correction when the capability is
\* unavailable, fails, or answers without JSON, with malformed JSON or with
\* points that are no number, and with the fallback feedback when it is
\* unavailable, fails, or answers with an empty text.
C30_ResponseNeverFatal ==
    /\ llm_return = None => ENABLED NextLlm
    /\ llm_return # None =>
          /\ llm_return.status = "returned"
          /\ (llm_call.fn = "correct_answer" /\ llm_call.cap.kind # "json") =>
                /\ llm_return.value.feedback = "basic"
                /\ llm_return.value.confidence = 30
          /\ (llm_call.fn = "enhance_feedback") =>
                /\ llm_return.value # ""
                /\ (llm_call.cap.kind # "text" \/ llm_call.cap.text_len = 0) =>
                      llm_return.value \in TemplatedFeedback

=============================================================================
